---- MODULE Spec2Model ----
(***************************************************************************)
(* Model of the fork monitor (src/monitor.py, src/config.py).              *)
(*                                                                         *)
(* One asyncio task per node runs monitor_node; the lifespan coroutine     *)
(* signals shutdown, runs cleanup and cancels the tasks.  asyncio is       *)
(* cooperative: a task runs without interruption from one await to the     *)
(* next, so every action below is "resume at an await, run to the next     *)
(* await".  pc[n] names the await the task of node n is suspended at.      *)
(*                                                                         *)
(* Optional values: None is the empty tuple <<>>, a present value x is     *)
(* <<x>>.  A websocket handle is the index of a transport in               *)
(* transports[n] (every handshake creates a new transport object), 0 is    *)
(* None.  Momentum.timestamp is written once and read only by the HTTP     *)
(* endpoint, which is not modelled; it is left out of the record.          *)
(***************************************************************************)
EXTENDS Integers, Sequences, FiniteSets, TLC

VARIABLES
    nodes,           \* self.nodes: node name -> NodeState
    pc,              \* node name -> await point of its monitor_node task
    transports,      \* node name -> sequence of "open"/"closed", one per handshake
    shutdown_event,  \* self.shutdown_event.is_set()
    lifespan,        \* position of the lifespan coroutine
    now,             \* time.time()
    decision,        \* what the last check_for_fork call reported
    remote,          \* the environment: what each remote node will still do
    horizon          \* the environment: how far time runs

vars == <<nodes, pc, transports, shutdown_event, lifespan, now, decision, remote,
          horizon>>

----------------------------------------------------------------------------
(* Program constants *)

MESSAGE_TIMEOUT == 30

KEEP_LAST == 5

----------------------------------------------------------------------------
(* Bounds of the model *)

MaxHeight == 2

MaxAccepts == 2

MaxPushes == 1

MaxGarbage == 1

MaxFaults == 2

DeepPushes == 6

MaxTime == 60

----------------------------------------------------------------------------
(* Data *)

NodeOrder == <<"hc1", "zenonhub", "atsocy">>

Nodes == {NodeOrder[i] : i \in 1..Len(NodeOrder)}

None == <<>>

Some(x) == <<x>>

Heights == 1..MaxHeight

Hashes == {"H1", "H2"}

\* The subscription tokens a subscribe ack carries in "result"
Tokens == {Some("sub")}

Momentum(height, hash) ==
    [height |-> height, hash |-> hash, is_stale |-> FALSE]

NodeState ==
    [websocket |-> 0,
     subscription_id |-> None,
     last_height |-> None,
     last_hash |-> None,
     is_connected |-> FALSE,
     last_message_time |-> 0,
     momentums |-> <<>>]

\* The inbound messages of the ingestion loop, by what the parsing code makes
\* of them.
Messages ==
    {[shape |-> "momentum", height |-> h, hash |-> x] : h \in Heights, x \in Hashes}
    \cup {[shape |-> "no_hash", height |-> h, hash |-> ""] : h \in Heights}
    \cup {[shape |-> s, height |-> 0, hash |-> ""] :
            s \in {"unparseable", "no_params", "no_result", "empty_result", "no_height"}}

NoHashes == [n \in Nodes |-> None]

NoDecision == [kind |-> "none", height |-> None, hashes |-> NoHashes]

\* "node.websocket and not node.websocket.closed" (lines 168, 190); tr is the
\* node's sequence of transports.
IsOpen(tr, nd) == nd.websocket # 0 /\ tr[nd.websocket] = "open"

SetStatus(tr, h, status) == [tr EXCEPT ![h] = status]

----------------------------------------------------------------------------
(* update_momentums *)

\* A variant that cuts the list at the wrong end: node.momentums[:5]
update_momentums_keep_first(ms, height, hash) ==
    LET appended == Append(ms, Momentum(height, hash))
    IN  IF Len(appended) > KEEP_LAST
        THEN SubSeq(appended, 1, KEEP_LAST)
        ELSE appended

update_momentums(ms, height, hash) ==
    LET appended == Append(ms, Momentum(height, hash))
    IN  IF Len(appended) > KEEP_LAST
        THEN SubSeq(appended, Len(appended) - KEEP_LAST + 1, Len(appended))
        ELSE appended

----------------------------------------------------------------------------
(* handle_disconnection.  It suspends at "await node.websocket.close()"    *)
(* when the handle is open: hd_begin is the part before that await, hd_end *)
(* the part after it.                                                      *)

\* A variant that marks the newest momentum only
MarkStaleNewestOnly(ms) ==
    [i \in DOMAIN ms |-> IF i = Len(ms) THEN [ms[i] EXCEPT !.is_stale = TRUE] ELSE ms[i]]

MarkStale(ms) == [i \in DOMAIN ms |-> [ms[i] EXCEPT !.is_stale = TRUE]]

hd_begin(nd) == [nd EXCEPT !.is_connected = FALSE, !.subscription_id = None]

hd_end(nd) == [nd EXCEPT !.websocket = 0, !.momentums = MarkStale(@)]

handle_disconnection(nd, tr) ==
    IF IsOpen(tr, nd)
    THEN [node |-> hd_begin(nd), suspended |-> TRUE]
    ELSE [node |-> hd_end(hd_begin(nd)), suspended |-> FALSE]

----------------------------------------------------------------------------
(* check_for_fork: a state transformer over the registry, so that what it *)
(* leaves alone is stated rather than assumed.                             *)

\* A variant with any() for all()
AnyConnected(reg) == \E n \in Nodes : reg[n].is_connected

AllConnected(reg) == \A n \in Nodes : reg[n].is_connected

MissingData(reg) ==
    \E n \in Nodes : reg[n].last_height = None \/ reg[n].last_hash = None

\* A variant that collects the height of the reference node only
ReferenceHeightOnly(reg) == {reg["hc1"].last_height}

HeightSet(reg) == {reg[n].last_height : n \in Nodes}

AllSame(reg) ==
    \A n \in Nodes : reg[n].last_hash = reg["hc1"].last_hash

ForkDecision(reg) ==
    IF ~AllConnected(reg)
    THEN [kind |-> "disconnected", height |-> None, hashes |-> NoHashes]
    ELSE IF MissingData(reg)
    THEN [kind |-> "no_data", height |-> None, hashes |-> NoHashes]
    ELSE IF Cardinality(HeightSet(reg)) > 1
    THEN [kind |-> "height_mismatch", height |-> None, hashes |-> NoHashes]
    ELSE IF AllSame(reg)
    THEN [kind |-> "consensus", height |-> reg["hc1"].last_height,
          hashes |-> [n \in Nodes |-> reg["hc1"].last_hash]]
    ELSE [kind |-> "fork", height |-> reg["hc1"].last_height,
          hashes |-> [n \in Nodes |-> reg[n].last_hash]]

\* A variant that forgets what the disconnected nodes reported last
check_for_fork_resetting(reg) ==
    [nodes |-> [n \in Nodes |->
                   IF reg[n].is_connected
                   THEN reg[n]
                   ELSE [reg[n] EXCEPT !.last_height = None, !.last_hash = None]],
     decision |-> ForkDecision(reg)]

\* A variant that clears the hashes it has found to differ
check_for_fork_clearing(reg) ==
    [nodes |-> IF ForkDecision(reg).kind = "fork"
               THEN [n \in Nodes |-> [reg[n] EXCEPT !.last_hash = None]]
               ELSE reg,
     decision |-> ForkDecision(reg)]

check_for_fork(reg) == [nodes |-> reg, decision |-> ForkDecision(reg)]

----------------------------------------------------------------------------
(* monitor_node, piece by piece.  Each piece yields the node's new state   *)
(* and the await its task suspends at next.                                *)

\* A variant that takes the timeout for milliseconds
HealthExpiredInMillis(nd, t) ==
    t - nd.last_message_time > MESSAGE_TIMEOUT * 1000

\* check_connection_health, lines 181-182: the timeout test
HealthExpired(nd, t) == t - nd.last_message_time > MESSAGE_TIMEOUT

\* A variant in which the tasks connect together: each waits at a barrier
\* for the others before its handshake
ReenterAtBarrier(nd, sd) ==
    IF sd THEN [node |-> nd, pc |-> "done"] ELSE [node |-> nd, pc |-> "barrier"]

\* Lines 198-203 for a node that is not connected: break on shutdown, else
\* start connect_node, which suspends in websockets.connect.
Reenter(nd, sd) ==
    IF sd THEN [node |-> nd, pc |-> "done"] ELSE [node |-> nd, pc |-> "connect"]

\* Lines 208-217 for a connected node: the health check, then either the
\* forced disconnection (and "continue") or the next recv.
FromHealth(nd, tr, t, sd) ==
    IF nd.is_connected /\ HealthExpired(nd, t)
    THEN LET r == handle_disconnection(nd, tr)
         IN  IF r.suspended
             THEN [node |-> r.node, pc |-> "close_hc"]
             ELSE Reenter(r.node, sd)
    ELSE [node |-> nd, pc |-> "recv"]

\* A variant without the shutdown test of lines 198-200
LoopTopIgnoringShutdown(nd, tr, t, sd) ==
    IF ~nd.is_connected THEN Reenter(nd, FALSE)
    ELSE FromHealth(nd, tr, t, FALSE)

\* Lines 196-217: one pass from the top of the while loop to the next await.
LoopTop(nd, tr, t, sd) ==
    IF sd THEN [node |-> nd, pc |-> "done"]
    ELSE IF ~nd.is_connected THEN Reenter(nd, sd)
    ELSE FromHealth(nd, tr, t, sd)

\* A variant of the failure branches without handle_disconnection
ConnectFailedNoCleanup(nd, tr) ==
    [node |-> [nd EXCEPT !.is_connected = FALSE], pc |-> "sleep"]

\* connect_node's three failure branches (lines 150-152, 153-156, 158-161),
\* then lines 204-206 of monitor_node: the backoff sleep.
ConnectFailed(nd, tr) ==
    LET r == handle_disconnection([nd EXCEPT !.is_connected = FALSE], tr)
    IN  [node |-> r.node, pc |-> IF r.suspended THEN "close_cn" ELSE "sleep"]

\* connect_node, lines 144-148: the ack carries "result".
Subscribed(nd, token, t) ==
    [nd EXCEPT !.subscription_id = token,
               !.is_connected = TRUE,
               !.last_message_time = t]

\* Lines 218-229: what one received message does to the node.  outcome is
\* "accepted" (a momentum, check_for_fork follows), "discarded" (the else
\* branch) or "raised" (an exception leaves the try block).
Ingest(nd, msg, t) ==
    LET stamped == [nd EXCEPT !.last_message_time = t]
    IN  CASE msg.shape = "unparseable" ->
               [node |-> stamped, outcome |-> "raised"]
          [] msg.shape \in {"no_params", "no_result"} ->
               [node |-> stamped, outcome |-> "discarded"]
          [] msg.shape \in {"empty_result", "no_height"} ->
               [node |-> stamped, outcome |-> "raised"]
          [] msg.shape = "no_hash" ->
               [node |-> [stamped EXCEPT !.last_height = Some(msg.height)],
                outcome |-> "raised"]
          [] msg.shape = "momentum" ->
               [node |-> [stamped EXCEPT
                            !.last_height = Some(msg.height),
                            !.last_hash = Some(msg.hash),
                            !.momentums = update_momentums(@, msg.height, msg.hash)],
                outcome |-> "accepted"]

\* Lines 233-237: except ConnectionClosed
OnConnectionClosed(nd, sd) ==
    IF ~sd
    THEN [node |-> [nd EXCEPT !.is_connected = FALSE], pc |-> "sleep"]
    ELSE [node |-> nd, pc |-> "done"]

\* A variant in which an exception ends the task: no handler around line 219
OnExceptionFatal(nd, sd) ==
    [node |-> [nd EXCEPT !.is_connected = FALSE], pc |-> "done"]

\* Lines 238-242: except Exception
OnException(nd, sd) ==
    IF ~sd
    THEN [node |-> [nd EXCEPT !.is_connected = FALSE], pc |-> "sleep"]
    ELSE [node |-> nd, pc |-> "done"]

----------------------------------------------------------------------------
(* The lifespan coroutine, lines 74-81, and cleanup, lines 186-192.        *)

Serving == [stage |-> "serving", index |-> 0, sock |-> 0]

Finished == [stage |-> "done", index |-> 0, sock |-> 0]

\* cleanup's loop from position i of the registry on: the first node whose
\* websocket is open is the one it suspends at, closing it.
NextToClose(i, reg, trs) ==
    {j \in i..Len(NodeOrder) :
        /\ IsOpen(trs[NodeOrder[j]], reg[NodeOrder[j]])
        /\ \A k \in i..(j - 1) : ~IsOpen(trs[NodeOrder[k]], reg[NodeOrder[k]])}

\* Lines 78-80: task.cancel() for every task, then gather.  CancelledError is
\* not an Exception, so no handler of monitor_node catches it: a task that
\* has not returned ends where it is suspended.
Cancelled(p) == [n \in Nodes |-> IF p[n] = "done" THEN "done" ELSE "cancelled"]

\* cleanup from position i on, up to its next await or, past the last node,
\* through cancel and gather.
CleanupFrom(i, trs) ==
    LET next == NextToClose(i, nodes, trs)
    IN  IF next = {}
        THEN /\ lifespan' = Finished
             /\ pc' = Cancelled(pc)
        ELSE /\ \E j \in next :
                    lifespan' = [stage |-> "cleanup", index |-> j,
                                 sock |-> nodes[NodeOrder[j]].websocket]
             /\ pc' = pc

\* Line 76-77: shutdown_event.set(), then cleanup
Shutdown ==
    /\ lifespan.stage = "serving"
    /\ shutdown_event' = TRUE
    /\ CleanupFrom(1, transports)
    /\ UNCHANGED <<nodes, transports, now, decision, remote, horizon>>

\* Line 191: "await node.websocket.close()" of cleanup returns
CleanupClosed ==
    /\ lifespan.stage = "cleanup"
    /\ LET n == NodeOrder[lifespan.index]
           trs == [transports EXCEPT ![n] = SetStatus(@, lifespan.sock, "closed")]
       IN  /\ transports' = trs
           /\ CleanupFrom(lifespan.index + 1, trs)
    /\ UNCHANGED <<nodes, shutdown_event, now, decision, remote, horizon>>

----------------------------------------------------------------------------
(* The task of node n *)

\* The environment lets something go wrong at node n: a failed handshake, a
\* lost transport, a bad or missing subscribe ack.
Fault(n) ==
    /\ remote[n].faults > 0
    /\ remote' = [remote EXCEPT ![n].faults = @ - 1]

\* The transport of node n fails under the task: it was closed locally (by
\* cleanup), or the environment closes it now.
Lost(n) ==
    IF IsOpen(transports[n], nodes[n]) THEN Fault(n) ELSE remote' = remote

Resume(n, r) ==
    /\ nodes' = [nodes EXCEPT ![n] = r.node]
    /\ pc' = [pc EXCEPT ![n] = r.pc]

\* The task runs for the first time: line 196
Start(n) ==
    /\ pc[n] = "start"
    /\ Resume(n, LoopTop(nodes[n], transports[n], now, shutdown_event))
    /\ UNCHANGED <<transports, shutdown_event, lifespan, now, decision, remote, horizon>>

\* Lines 127-131: websockets.connect returns a new transport; the handle is
\* overwritten, whatever it referred to.  The task suspends in send.
ConnectOk(n) ==
    /\ pc[n] = "connect"
    /\ remote[n].accepts > 0
    /\ remote' = [remote EXCEPT ![n].accepts = @ - 1]
    /\ transports' = [transports EXCEPT ![n] = Append(@, "open")]
    /\ Resume(n, [node |-> [nodes[n] EXCEPT !.websocket = Len(transports[n]) + 1],
                  pc |-> "send"])
    /\ UNCHANGED <<shutdown_event, lifespan, now, decision, horizon>>

\* Lines 127-131 raise: the handshake failed, line 158
ConnectFail(n) ==
    /\ pc[n] = "connect"
    /\ IF remote[n].accepts > 0 THEN Fault(n) ELSE remote' = remote
    /\ Resume(n, ConnectFailed(nodes[n], transports[n]))
    /\ UNCHANGED <<transports, shutdown_event, lifespan, now, decision, horizon>>

\* Line 133 returns: the task suspends in the recv of line 137
SendOk(n) ==
    /\ pc[n] = "send"
    /\ IsOpen(transports[n], nodes[n])
    /\ Resume(n, [node |-> nodes[n], pc |-> "ack"])
    /\ UNCHANGED <<transports, shutdown_event, lifespan, now, decision, remote, horizon>>

\* Line 133 raises ConnectionClosed: the transport is closed, line 158
SendFail(n) ==
    /\ pc[n] = "send"
    /\ Lost(n)
    /\ LET tr == SetStatus(transports[n], nodes[n].websocket, "closed")
       IN  /\ transports' = [transports EXCEPT ![n] = tr]
           /\ Resume(n, ConnectFailed(nodes[n], tr))
    /\ UNCHANGED <<shutdown_event, lifespan, now, decision, horizon>>

\* Lines 141-148: the response holds "result"; connect_node returns and
\* monitor_node goes on at line 204 with a connected node.
AckResult(n, token) ==
    /\ pc[n] = "ack"
    /\ IsOpen(transports[n], nodes[n])
    /\ Resume(n, FromHealth(Subscribed(nodes[n], token, now), transports[n],
                            now, shutdown_event))
    /\ UNCHANGED <<transports, shutdown_event, lifespan, now, decision, remote, horizon>>

\* Lines 149-152: the response holds no "result"
AckNoResult(n) ==
    /\ pc[n] = "ack"
    /\ IsOpen(transports[n], nodes[n])
    /\ Fault(n)
    /\ Resume(n, ConnectFailed(nodes[n], transports[n]))
    /\ UNCHANGED <<transports, shutdown_event, lifespan, now, decision, horizon>>

\* Lines 153-156: no response within 10 seconds
AckTimeout(n) ==
    /\ pc[n] = "ack"
    /\ IsOpen(transports[n], nodes[n])
    /\ Fault(n)
    /\ Resume(n, ConnectFailed(nodes[n], transports[n]))
    /\ UNCHANGED <<transports, shutdown_event, lifespan, now, decision, horizon>>

\* Lines 137-141 raise, line 158: recv raises ConnectionClosed (the transport
\* is closed) or json.loads rejects the response (it stays open).
AckError(n, closed) ==
    /\ pc[n] = "ack"
    /\ IF closed THEN Lost(n) ELSE IsOpen(transports[n], nodes[n]) /\ Fault(n)
    /\ LET tr == IF closed
                 THEN SetStatus(transports[n], nodes[n].websocket, "closed")
                 ELSE transports[n]
       IN  /\ transports' = [transports EXCEPT ![n] = tr]
           /\ Resume(n, ConnectFailed(nodes[n], tr))
    /\ UNCHANGED <<shutdown_event, lifespan, now, decision, horizon>>

\* Line 169 returns: the rest of handle_disconnection, then its caller:
\* connect_node returns to the backoff sleep of line 205, the health check to
\* the "continue" of line 211.
CloseDone(n) ==
    /\ pc[n] \in {"close_cn", "close_hc"}
    /\ LET tr == SetStatus(transports[n], nodes[n].websocket, "closed")
           nd == hd_end(nodes[n])
       IN  /\ transports' = [transports EXCEPT ![n] = tr]
           /\ Resume(n, IF pc[n] = "close_cn"
                        THEN [node |-> nd, pc |-> "sleep"]
                        ELSE LoopTop(nd, tr, now, shutdown_event))
    /\ UNCHANGED <<shutdown_event, lifespan, now, decision, remote, horizon>>

\* asyncio.sleep(5) of lines 205, 237, 242 returns
Wake(n) ==
    /\ pc[n] = "sleep"
    /\ Resume(n, LoopTop(nodes[n], transports[n], now, shutdown_event))
    /\ UNCHANGED <<transports, shutdown_event, lifespan, now, decision, remote, horizon>>

\* Lines 230-231: nothing within the poll timeout
RecvTimeout(n) ==
    /\ pc[n] = "recv"
    /\ IsOpen(transports[n], nodes[n])
    /\ Resume(n, LoopTop(nodes[n], transports[n], now, shutdown_event))
    /\ UNCHANGED <<transports, shutdown_event, lifespan, now, decision, remote, horizon>>

\* Lines 214-229: a message arrives
RecvMessage(n, msg) ==
    /\ pc[n] = "recv"
    /\ IsOpen(transports[n], nodes[n])
    /\ IF msg.shape = "momentum"
       THEN /\ remote[n].pushes > 0
            /\ remote' = [remote EXCEPT ![n].pushes = @ - 1]
       ELSE /\ remote[n].garbage > 0
            /\ remote' = [remote EXCEPT ![n].garbage = @ - 1]
    /\ LET got == Ingest(nodes[n], msg, now)
           checked == check_for_fork([nodes EXCEPT ![n] = got.node])
       IN  CASE got.outcome = "accepted" ->
                  LET r == LoopTop(checked.nodes[n], transports[n], now, shutdown_event)
                  IN  /\ nodes' = [checked.nodes EXCEPT ![n] = r.node]
                      /\ pc' = [pc EXCEPT ![n] = r.pc]
                      /\ decision' = checked.decision
             [] got.outcome = "discarded" ->
                  /\ Resume(n, LoopTop(got.node, transports[n], now, shutdown_event))
                  /\ decision' = decision
             [] got.outcome = "raised" ->
                  /\ Resume(n, OnException(got.node, shutdown_event))
                  /\ decision' = decision
    /\ UNCHANGED <<transports, shutdown_event, lifespan, now, horizon>>

\* Line 215 raises ConnectionClosed: the transport is closed, line 233
RecvClosed(n) ==
    /\ pc[n] = "recv"
    /\ transports' = [transports EXCEPT
                        ![n] = SetStatus(@, nodes[n].websocket, "closed")]
    /\ Resume(n, OnConnectionClosed(nodes[n], shutdown_event))
    /\ Lost(n)
    /\ UNCHANGED <<shutdown_event, lifespan, now, decision, horizon>>

\* Time passes, observed in steps of the message timeout.
Tick ==
    /\ lifespan.stage # "done"
    /\ now + MESSAGE_TIMEOUT <= horizon
    /\ now' = now + MESSAGE_TIMEOUT
    /\ UNCHANGED <<nodes, pc, transports, shutdown_event, lifespan, decision, remote, horizon>>

----------------------------------------------------------------------------

Task(n) ==
    \/ Start(n)
    \/ ConnectOk(n)
    \/ ConnectFail(n)
    \/ SendOk(n)
    \/ SendFail(n)
    \/ \E token \in Tokens : AckResult(n, token)
    \/ AckNoResult(n)
    \/ AckTimeout(n)
    \/ \E closed \in BOOLEAN : AckError(n, closed)
    \/ CloseDone(n)
    \/ Wake(n)
    \/ RecvTimeout(n)
    \/ \E msg \in Messages : RecvMessage(n, msg)
    \/ RecvClosed(n)

Next ==
    \/ \E n \in Nodes : Task(n)
    \/ Shutdown
    \/ CleanupClosed
    \/ Tick

\* After __init__ and the startup half of lifespan (lines 46-50, 64, 69-72)
InitProgram ==
    /\ nodes = [n \in Nodes |-> NodeState]
    /\ pc = [n \in Nodes |-> "start"]
    /\ transports = [n \in Nodes |-> <<>>]
    /\ shutdown_event = FALSE
    /\ lifespan = Serving
    /\ now = 0
    /\ decision = NoDecision

\* What a remote node will still do: accept handshakes, push momentums, push
\* messages of another shape, fail.
Budget(a, p, g, f) == [accepts |-> a, pushes |-> p, garbage |-> g, faults |-> f]

Unreachable == Budget(0, 0, 0, 0)

\* Three scenarios of the environment.
\* Forks: every remote node is reachable and pushes a momentum, hc1 also a
\* message of another shape, after which it can reconnect.
EnvForks ==
    /\ remote = [n \in Nodes |->
                    IF n = "hc1"
                    THEN Budget(MaxAccepts, MaxPushes, MaxGarbage, 0)
                    ELSE Budget(1, MaxPushes, 0, 0)]
    /\ horizon = 0

\* Deep: only hc1 is reachable; it pushes more momentums than are kept, and
\* its transport and handshakes may fail in between.
EnvDeep ==
    /\ remote = [n \in Nodes |->
                    IF n = "hc1"
                    THEN Budget(MaxAccepts, DeepPushes, 0, MaxFaults)
                    ELSE Unreachable]
    /\ horizon = 0

\* Timed: only hc1 is reachable, and time runs past the message timeout.
EnvTimed ==
    /\ remote = [n \in Nodes |->
                    IF n = "hc1"
                    THEN Budget(MaxAccepts, MaxPushes, MaxGarbage, 1)
                    ELSE Unreachable]
    /\ horizon = MaxTime

Init == InitProgram /\ (EnvForks \/ EnvDeep \/ EnvTimed)

Spec == Init /\ [][Next]_vars

\* Every await of a task returns or raises within its timeout, so a task
\* that can take a step takes one; cleanup's awaits return likewise.
Fairness ==
    /\ \A n \in Nodes : WF_vars(Task(n))
    /\ WF_vars(CleanupClosed)

InitTimed == InitProgram /\ EnvTimed

SpecLive == InitTimed /\ [][Next]_vars /\ Fairness

----------------------------------------------------------------------------
(* Properties *)

Held(n) == nodes[n].momentums

AllStale(n) == \A i \in DOMAIN Held(n) : Held(n)[i].is_stale

Newest(n) == Held(n)[Len(Held(n))]

\* The three environments, told apart by what never changes in them.
InForks == remote["zenonhub"] # Unreachable

InDeep == remote["zenonhub"] = Unreachable /\ horizon = 0

\* What the fork detector decides on the registry as it is now
Decided == check_for_fork(nodes).decision

\* C1: every disconnection marks every held momentum stale.  Stated for the
\* nodes whose disconnection is over: a node that is not connected and whose
\* task is in the backoff sleep or in the next connection attempt holds only
\* stale momentums.
C1_DisconnectedHoldsOnlyStale ==
    \A n \in Nodes :
        (~nodes[n].is_connected /\ pc[n] \in {"sleep", "connect", "send", "ack"})
            => AllStale(n)

\* C2: when some node is not connected, the fork detector decides
\* Incomplete(disconnected), whatever the heights and hashes are.
C2_DisconnectedIsIncomplete ==
    (\E n \in Nodes : ~nodes[n].is_connected) => Decided.kind = "disconnected"

\* The detector has reported "disconnected" with two connected nodes that
\* agree on height and hash and a third that is not connected (Scenario D).
C2_Witness ==
    /\ decision.kind = "disconnected"
    /\ \E x, y, z \in Nodes :
          /\ x # y
          /\ nodes[x].is_connected /\ nodes[y].is_connected
          /\ ~nodes[z].is_connected
          /\ nodes[x].last_height # None
          /\ nodes[x].last_height = nodes[y].last_height
          /\ nodes[x].last_hash # None
          /\ nodes[x].last_hash = nodes[y].last_hash

\* C3: with all nodes connected, all holding a last_height and all heights
\* equal, the detector decides Consensus(height, hash) exactly when all
\* hashes are equal and Fork(height, node -> hash) exactly when two differ.
C3_EqualHeightsDecide ==
    LET same == \A n, m \in Nodes : nodes[n].last_hash = nodes[m].last_hash
    IN  ( /\ \A n \in Nodes : nodes[n].is_connected /\ nodes[n].last_height # None
          /\ \A n, m \in Nodes : nodes[n].last_height = nodes[m].last_height )
        => /\ Decided.kind = "consensus" <=> same
           /\ Decided.kind = "fork" <=> ~same
           /\ Decided.height = nodes["hc1"].last_height
           /\ \A n \in Nodes :
                 Decided.hashes[n] = IF same THEN nodes["hc1"].last_hash
                                             ELSE nodes[n].last_hash

\* C4: with all nodes connected and holding data (a last_height and a
\* last_hash), the detector decides Incomplete(height-mismatch) as soon as
\* two heights differ, whatever the hashes are.
C4_HeightMismatchIsIncomplete ==
    ( /\ \A n \in Nodes :
            /\ nodes[n].is_connected
            /\ nodes[n].last_height # None
            /\ nodes[n].last_hash # None
      /\ \E n, m \in Nodes : nodes[n].last_height # nodes[m].last_height )
    => Decided.kind = "height_mismatch"

\* The detector has reported the mismatch on the registry as it is now, with
\* heights that differ and hashes that differ too.
C4_Witness ==
    /\ decision.kind = "height_mismatch"
    /\ \A n \in Nodes :
          nodes[n].is_connected /\ nodes[n].last_height # None /\ nodes[n].last_hash # None
    /\ \E n, m \in Nodes : nodes[n].last_height # nodes[m].last_height
    /\ \E n, m \in Nodes : nodes[n].last_hash # nodes[m].last_hash

\* A step in which node n accepts the momentum msg
Accepts(n, msg) == msg.shape = "momentum" /\ RecvMessage(n, msg)

\* C5: no node ever holds more than 5 momentums, and accepting a momentum
\* appends it; when 5 are held, the first-arrived one is dropped and the
\* others keep their order.
C5_AtMostFiveOldestFirst ==
    /\ [](\A n \in Nodes : Len(Held(n)) <= 5)
    /\ [][\A n \in Nodes : \A msg \in Messages :
            Accepts(n, msg) =>
                nodes'[n].momentums =
                    Append(IF Len(Held(n)) = 5 THEN Tail(Held(n)) ELSE Held(n),
                           [height |-> msg.height, hash |-> msg.hash,
                            is_stale |-> FALSE])]_vars

\* In the deep environment hc1 has accepted every momentum the remote had to
\* push, more than are kept, and holds stale entries followed by fresh ones.
C5_Witness ==
    /\ InDeep
    /\ remote["hc1"].pushes = 0
    /\ Len(Held("hc1")) = 5
    /\ Held("hc1")[1].is_stale
    /\ ~Newest("hc1").is_stale

\* Node n is connected over an open transport and has heard nothing for
\* longer than the message timeout.
Silent(n) ==
    /\ nodes[n].is_connected
    /\ IsOpen(transports[n], nodes[n])
    /\ now - nodes[n].last_message_time > 30

\* The transport the handle of n refers to was closed under it.
TransportLost(n) ==
    nodes[n].websocket # 0 /\ transports[n][nodes[n].websocket] = "closed"

\* C6: a connected node that hears nothing for longer than the message
\* timeout, while the monitor runs and the transport stays open, is
\* eventually disconnected with every held momentum stale.
C6_SilentNodeIsDisconnected ==
    \A n \in Nodes :
        (Silent(n) /\ ~shutdown_event)
            ~> \/ ~nodes[n].is_connected /\ AllStale(n)
               \/ now - nodes[n].last_message_time <= 30
               \/ TransportLost(n)
               \/ shutdown_event

\* hc1 was disconnected by the health check alone: the remote has not
\* failed, the handle is cleared, the silence still lasts, and the momentum
\* it holds is stale.
C6_Witness ==
    /\ ~InForks /\ ~InDeep
    /\ remote["hc1"].faults = 1
    /\ remote["hc1"].accepts > 0
    /\ ~shutdown_event
    /\ ~nodes["hc1"].is_connected
    /\ nodes["hc1"].websocket = 0
    /\ now - nodes["hc1"].last_message_time > 30
    /\ Held("hc1") # <<>>
    /\ AllStale("hc1")

\* C7: a connected node has an open transport behind its handle and a
\* subscription id.
C7_ConnectedIsLive ==
    \A n \in Nodes :
        nodes[n].is_connected
            => IsOpen(transports[n], nodes[n]) /\ nodes[n].subscription_id # None

\* C8: last_height and last_hash are the height and hash of the newest held
\* momentum.
C8_LastIsNewest ==
    \A n \in Nodes :
        Held(n) # <<>>
            => /\ nodes[n].last_height = Some(Newest(n).height)
               /\ nodes[n].last_hash = Some(Newest(n).hash)

\* C9: a message that is not a momentum is discarded: only the time of the
\* last message changes, and the task goes back to receiving (unless
\* shutdown makes it leave).
C9_MalformedIsDiscarded ==
    [][\A n \in Nodes : \A msg \in Messages :
          (msg.shape # "momentum" /\ RecvMessage(n, msg))
              => /\ nodes'[n] = [nodes[n] EXCEPT !.last_message_time = now]
                 /\ shutdown_event \/ pc'[n] = "recv"]_vars

Terminated(n) == pc[n] \in {"done", "cancelled"}

\* C11: once shutdown_event is set, every task eventually terminates, from
\* whatever await it is suspended at, and no task enters websockets.connect
\* in a step that ends with the flag set.
C11_ShutdownTerminatesTasks ==
    /\ shutdown_event ~> (\A n \in Nodes : Terminated(n))
    /\ [][\A n \in Nodes :
            (shutdown_event' /\ pc'[n] = "connect") => pc[n] = "connect"]_vars

\* Shutdown is over; hc1 saw the flag at the top of its loop and returned
\* after it had been connected, the other tasks were cancelled where they
\* were suspended.
C11_Witness ==
    /\ shutdown_event
    /\ lifespan = Finished
    /\ pc["hc1"] = "done"
    /\ nodes["hc1"].is_connected
    /\ \E n \in Nodes : pc[n] = "cancelled"

\* Node n was disconnected and its task has not started the next attempt.
AwaitingRetry(n) ==
    ~nodes[n].is_connected /\ pc[n] \in {"sleep", "close_cn", "close_hc"}

\* C12: without shutdown no task ends, and a node that was disconnected, by
\* whatever failure, always gets to its next handshake attempt (or shutdown
\* is signalled first).
C12_AlwaysRetries ==
    /\ [](\A n \in Nodes : Terminated(n) => shutdown_event)
    /\ \A n \in Nodes : AwaitingRetry(n) ~> (pc[n] = "connect" \/ shutdown_event)

\* hc1 is in a handshake attempt again after the remote has used up every
\* failure and every accepted handshake it had: attempts go on after that.
C12_Witness ==
    /\ ~shutdown_event
    /\ pc["hc1"] = "connect"
    /\ remote["hc1"].faults = 0
    /\ remote["hc1"].accepts = 0
    /\ remote["hc1"].garbage = 0
    /\ Len(transports["hc1"]) = MaxAccepts

\* C13: a step of the task of node n, whatever it is (connecting, ingesting,
\* health check, disconnection handling, the fork detector it calls),
\* leaves the NodeState of every other node as it was.
C13_TaskWritesOwnNodeOnly ==
    [][\A n \in Nodes :
          Task(n) => \A m \in Nodes \ {n} : nodes'[m] = nodes[m]]_vars

\* The detector has run in the task of a node that just accepted a momentum
\* while another node, which had reported a height before, is disconnected.
C13_Witness ==
    /\ decision.kind = "disconnected"
    /\ \E n, m \in Nodes :
          /\ n # m
          /\ nodes[n].is_connected
          /\ Held(n) # <<>> /\ ~Newest(n).is_stale
          /\ ~nodes[m].is_connected
          /\ nodes[m].last_height # None

\* C14: no deadlock.  A task that has not terminated can always take a step,
\* in every reachable state, whatever the other tasks and the shutdown
\* sequence are doing; and cleanup, once it waits for a close, can go on.
C14_NoDeadlock ==
    /\ \A n \in Nodes : ~Terminated(n) => ENABLED Task(n)
    /\ lifespan.stage = "cleanup" => ENABLED CleanupClosed

\* Shutdown is under way: cleanup waits for a close, one task has returned,
\* another is still suspended in its handshake.
C14_Witness ==
    /\ lifespan.stage = "cleanup"
    /\ \E n, m \in Nodes : pc[n] = "done" /\ pc[m] \in {"send", "ack"}

\* C15: the backoff sleep lies between every disconnection and the next
\* handshake attempt: a task enters websockets.connect only when it wakes
\* from the sleep (or runs for the first time).
C15_BackoffBeforeEveryAttempt ==
    [][\A n \in Nodes :
          (pc'[n] = "connect" /\ pc[n] # "connect") => pc[n] \in {"sleep", "start"}]_vars

\* C16: a node that waits in the backoff sleep to retry is not connected,
\* has no subscription id and no connection handle.
C16_RetryingNodeIsCleared ==
    \A n \in Nodes :
        pc[n] = "sleep"
            => /\ ~nodes[n].is_connected
               /\ nodes[n].subscription_id = None
               /\ nodes[n].websocket = 0

\* The transport the handle of node n refers to, in the state after a step
HandleClosed(n) ==
    nodes[n].websocket # 0 /\ transports'[n][nodes[n].websocket] = "closed"

\* C17: is_connected becomes true only in the step that receives, over the
\* open transport of the handshake, a subscribe response with "result"; the
\* result is stored as subscription_id and last_message_time is stamped.  A
\* response without result and an ack timeout leave the node not connected
\* with subscription_id cleared and the task closing the transport, and when
\* the close returns the transport is closed, the handle cleared and the
\* task in the backoff sleep: it never reaches the recv of the ingestion
\* loop from a failed attempt.
C17_ConnectedOnlyByAck ==
    [][\A n \in Nodes :
          /\ (nodes'[n].is_connected /\ ~nodes[n].is_connected)
                => /\ pc[n] = "ack" /\ pc'[n] = "recv"
                   /\ IsOpen(transports[n], nodes[n])
                   /\ nodes'[n].websocket = nodes[n].websocket
                   /\ nodes'[n].subscription_id \in Tokens
                   /\ nodes'[n].last_message_time = now
          /\ (AckNoResult(n) \/ AckTimeout(n))
                => /\ ~nodes'[n].is_connected
                   /\ nodes'[n].subscription_id = None
                   /\ pc'[n] = "close_cn"
          /\ (pc[n] = "close_cn" /\ CloseDone(n))
                => /\ ~nodes'[n].is_connected
                   /\ nodes'[n].subscription_id = None
                   /\ HandleClosed(n)
                   /\ nodes'[n].websocket = 0
                   /\ pc'[n] = "sleep"
          /\ (pc'[n] = "recv" /\ pc[n] # "recv") => pc[n] = "ack"]_vars

\* The first attempt of hc1 has failed at the subscribe ack (the remote has
\* pushed nothing yet, so the task was never in the ingestion loop): the
\* node is not connected, has no subscription id, and its task is closing
\* the transport of the handshake, which the handle still refers to.
C17_Witness ==
    /\ pc["hc1"] = "close_cn"
    /\ InDeep
    /\ remote["hc1"].pushes = DeepPushes
    /\ remote["hc1"].faults = MaxFaults - 1
    /\ ~nodes["hc1"].is_connected
    /\ nodes["hc1"].subscription_id = None
    /\ nodes["hc1"].websocket = 1
    /\ IsOpen(transports["hc1"], nodes["hc1"])
    /\ ~shutdown_event

\* C18: when the shutdown sequence has completed, no node has an open
\* transport behind its handle.
C18_ShutdownClosesEverything ==
    lifespan = Finished
        => \A n \in Nodes : ~IsOpen(transports[n], nodes[n])

\* The transports of node n that are open
OpenTransports(n) == {i \in DOMAIN transports[n] : transports[n][i] = "open"}

\* C19: a node has at most one open transport, and every open transport is
\* the one its handle refers to.
C19_AtMostOneOpenTransport ==
    \A n \in Nodes :
        /\ Cardinality(OpenTransports(n)) <= 1
        /\ \A i \in OpenTransports(n) : nodes[n].websocket = i

\* C20: the stale momentums of a node form a prefix of its list, and every
\* step keeps the momentums it does not evict as they are, height and hash,
\* except that it may mark them stale; a momentum is appended non-stale.
C20_StalenessIsMonotonic ==
    /\ [](\A n \in Nodes : \A i, j \in DOMAIN Held(n) :
             (i < j /\ Held(n)[j].is_stale) => Held(n)[i].is_stale)
    /\ [][\A n \in Nodes :
            LET old == Held(n)
                new == nodes'[n].momentums
            IN  \E evicted, appended \in 0..1 :
                    /\ Len(new) = Len(old) - evicted + appended
                    /\ \A i \in 1..(Len(old) - evicted) :
                          /\ new[i].height = old[i + evicted].height
                          /\ new[i].hash = old[i + evicted].hash
                          /\ old[i + evicted].is_stale => new[i].is_stale
                    /\ appended = 1 => ~new[Len(new)].is_stale
                    /\ evicted = 1 => appended = 1 /\ Len(old) = KEEP_LAST]_vars

\* hc1 has been disconnected and has reconnected: it holds two momentums
\* marked stale, then a fresh one, and is disconnected again with the fresh
\* one still not stale or connected and ingesting.
C20_Witness ==
    /\ InDeep
    /\ Len(Held("hc1")) >= 3
    /\ Held("hc1")[1].is_stale
    /\ Held("hc1")[2].is_stale
    /\ ~Held("hc1")[3].is_stale
    /\ Len(transports["hc1"]) = MaxAccepts

====
